---- MODULE Spec2Model ----
(***************************************************************************)
(* Finity backend: authentication (app/core/security.py, api/v1/auth.py)   *)
(* and the ownership-scoped endpoints for categories and transactions      *)
(* (api/v1/categories.py, api/v1/transactions.py) over the relational      *)
(* store.                                                                  *)
(*                                                                         *)
(* A handler is an operator of the same name: from the request and the     *)
(* current tables it gives the HTTP response (status, detail, returned     *)
(* rows, issued token) and the table it writes as the handler leaves it.   *)
(* The action call_<handler> is one request to that route: it commits the  *)
(* table.  register is also given in two steps, split where it has read    *)
(* the user table and not yet written to it, because two requests can be   *)
(* between those statements at the same time.                              *)
(***************************************************************************)
EXTENDS Integers, FiniteSets, Sequences, TLC

VARIABLES
    dialect,        \* database engine behind DATABASE_URL
    now,            \* server clock (datetime.utcnow), in minutes
    users,          \* rows of table "user"
    pending,        \* register requests between their SELECT and their INSERT
    categories,     \* rows of table "category"
    transactions,   \* rows of table "transaction"
    receipt,        \* the parse-file request in progress and its outbound calls
    sessions        \* requests followed step by step and the database sessions open

vars == <<dialect, now, users, pending, categories, transactions, receipt, sessions>>

-----------------------------------------------------------------------------
(* Bounds of the model *)

MaxUsers == 2
MaxCategories == 2
MaxTransactions == 1
MaxTicks == 1
MaxRequests == 2
MaxLedger == 3
MaxServed == 3

(* Program constants *)

ACCESS_TOKEN_EXPIRE_MINUTES == 90

(* The clock is read every TickMinutes minutes. *)
TickMinutes == 100

(* Marks a field the request body did not set (body.dict(exclude_unset=True)). *)
UnsetInt == -1
UnsetStr == "<unset>"

(* Python None *)
None == ""
NoUser == 0

-----------------------------------------------------------------------------
(* Input domains *)

Max(S) == CHOOSE x \in S : \A y \in S : y <= x

Requests == 1..MaxRequests

(* register/login bodies: two profiles per email *)
Profiles == {<<"p", None>>, <<"q", "n">>}
AuthBodies ==
    {[email |-> e, password |-> c[1], full_name |-> c[2]] : e \in {"1", "a"}, c \in Profiles}
(* the bodies the resource endpoints' specification registers users with *)
OwnerBodies ==
    {[email |-> e, password |-> "p", full_name |-> None] : e \in {"1", "2"}}

Idle == [active |-> FALSE, email |-> "", password |-> "", full_name |-> ""]

NoToken == [present |-> FALSE, signed |-> FALSE, sub |-> None, exp |-> 0]
Token(signed, sub, exp) ==
    [present |-> TRUE, signed |-> signed, sub |-> sub, exp |-> exp]

(* Expiry times of tokens issued at a clock reading, the last reading       *)
(* before the model starts included.                                        *)
TokenExps ==
    {(t - 1) * TickMinutes + ACCESS_TOKEN_EXPIRE_MINUTES : t \in 0..(MaxTicks + 1)}

(* What a client of the authentication routes can present: tokens issued  *)
(* to "1" at any of these times, a token whose signature does not verify,   *)
(* one without a sub claim, one whose sub names no registered user, or no   *)
(* Authorization header at all.                                             *)
Tokens ==
    {Token(TRUE, "1", x) : x \in TokenExps}
    \cup {Token(FALSE, "1", Max(TokenExps)), Token(TRUE, None, Max(TokenExps)),
          Token(TRUE, "2", Max(TokenExps))}
TokenInputs == Tokens \cup {NoToken}

(* What a client of the resource endpoints can present: a token of "1", a   *)
(* token of "2", an expired token, or no Authorization header at all.       *)
OwnerTokens ==
    {Token(TRUE, "1", Max(TokenExps)), Token(TRUE, "2", Max(TokenExps)),
     Token(TRUE, "1", 0 - TickMinutes + ACCESS_TOKEN_EXPIRE_MINUTES)}
OwnerInputs == OwnerTokens \cup {NoToken}

-----------------------------------------------------------------------------
(* Responses *)

Response(status, detail, rows, table) ==
    [status |-> status, detail |-> detail, rows |-> rows, table |-> table,
     token |-> NoToken]

(* A response of register, login or refresh: {access_token, token_type} *)
TokenResponse(token, table) ==
    [status |-> 200, detail |-> "", rows |-> {}, table |-> table, token |-> token]

-----------------------------------------------------------------------------
(* app/core/security.py *)

hash_password(password) == [bcrypt |-> password]

verify_password(plain_password, hashed_password) ==
    hashed_password = hash_password(plain_password)

create_access_token(sub) ==
    Token(TRUE, sub, now + ACCESS_TOKEN_EXPIRE_MINUTES)

(* jwt.decode called with options={"verify_exp": False} *)
decode_access_token_NoExpiry(token) ==
    IF token.signed THEN token.sub ELSE None

(* jwt.decode raises JWTError on a bad signature and on exp < now *)
decode_access_token(token) ==
    IF token.signed /\ token.exp >= now THEN token.sub ELSE None

UserByEmail(email) == {u \in users : u.email = email}

(* The dependency: the status it ends with and the id of the user it found. *)
(* Without an Authorization header oauth2_scheme answers 401 itself.        *)
get_current_user(token) ==
    IF ~token.present
    THEN [status |-> 401, detail |-> "Not authenticated", user |-> NoUser]
    ELSE LET email == decode_access_token(token) IN
         IF email = None
         THEN [status |-> 401, detail |-> "Invalid or expired token", user |-> NoUser]
         ELSE IF UserByEmail(email) = {}
              THEN [status |-> 401, detail |-> "User not found", user |-> NoUser]
              ELSE [status |-> 200, detail |-> "",
                    user |-> (CHOOSE u \in UserByEmail(email) : TRUE).id]

(* The dependency answers for the route: the handler is not called *)
Unauthorized(auth, table) == Response(auth.status, auth.detail, {}, table)

-----------------------------------------------------------------------------
(* Table "user" (app/models/user.py): email is unique, enforced when the   *)
(* row is written.                                                          *)

(* the column declared without unique=True *)
UserEmailUnique_None(rows) == TRUE

UserEmailUnique(rows) ==
    \A u1, u2 \in rows : u1.email = u2.email => u1 = u2

-----------------------------------------------------------------------------
(* app/api/v1/auth.py *)

(* UserModel(email=..., password_hash=..., full_name=...), id from the table *)
NewUser(body) ==
    [id |-> Cardinality(users) + 1,
     email |-> body.email,
     password_hash |-> hash_password(body.password),
     full_name |-> body.full_name]

(* register, lines 35-41: INSERT, COMMIT, issue the token *)
register_insert(body) ==
    LET new_user == NewUser(body) IN
    IF UserEmailUnique(users \cup {new_user})
    THEN TokenResponse(create_access_token(new_user.email), users \cup {new_user})
    ELSE Response(500, "IntegrityError", {}, users)

(* register, lines 28-41 with no other request in between *)
register(body) ==
    IF UserByEmail(body.email) # {}
    THEN Response(400, "Email already registered", {}, users)
    ELSE register_insert(body)

login(body) ==
    LET found == UserByEmail(body.email) IN
    IF found = {} \/ \A u \in found : ~verify_password(body.password, u.password_hash)
    THEN Response(401, "Invalid credentials", {}, users)
    ELSE TokenResponse(create_access_token((CHOOSE u \in found : TRUE).email), users)

(* refresh: the token travels in the JSON body, not in a header *)
refresh_token(refresh) ==
    LET email == decode_access_token(refresh) IN
    IF email = None
    THEN Response(401, "Invalid refresh token", {}, users)
    ELSE TokenResponse(create_access_token(email), users)

(* {"email": current_user}: current_user is the id the dependency returned *)
get_me(token) ==
    LET auth == get_current_user(token) IN
    IF auth.status # 200
    THEN Unauthorized(auth, users)
    ELSE Response(200, "", {auth.user}, users)

(* logout reads the Authorization header itself; refresh_tokens_db is not  *)
(* defined anywhere, so evaluating "email in refresh_tokens_db" raises      *)
(* NameError.                                                               *)
logout(token) ==
    IF token.present /\ decode_access_token(token) # None
    THEN Response(500, "NameError", {}, users)
    ELSE Response(200, "Logged out successfully", {}, users)

call_register(body) ==
    /\ \A r \in Requests : ~pending[r].active
    /\ Cardinality(register(body).table) <= MaxUsers
    /\ users' = register(body).table
    /\ UNCHANGED <<dialect, now, pending, categories, transactions, receipt, sessions>>

(* a register request runs its SELECT and goes on when no row came back *)
register_query(r, body) ==
    /\ ~pending[r].active
    /\ UserByEmail(body.email) = {}
    /\ pending' = [pending EXCEPT ![r] =
                      [active |-> TRUE, email |-> body.email,
                       password |-> body.password, full_name |-> body.full_name]]
    /\ UNCHANGED <<dialect, now, users, categories, transactions, receipt, sessions>>

(* a register request that got an existing row answers 400 and ends *)
register_reject(r, body) ==
    /\ ~pending[r].active
    /\ UserByEmail(body.email) # {}
    /\ users' = register(body).table
    /\ UNCHANGED <<dialect, now, pending, categories, transactions, receipt, sessions>>

register_commit(r) ==
    /\ pending[r].active
    /\ Cardinality(register_insert(pending[r]).table) <= MaxUsers
    /\ users' = register_insert(pending[r]).table
    /\ pending' = [pending EXCEPT ![r] = Idle]
    /\ UNCHANGED <<dialect, now, categories, transactions, receipt, sessions>>

call_login(body) ==
    /\ users' = login(body).table
    /\ UNCHANGED <<dialect, now, pending, categories, transactions, receipt, sessions>>

call_refresh_token(token) ==
    /\ users' = refresh_token(token).table
    /\ UNCHANGED <<dialect, now, pending, categories, transactions, receipt, sessions>>

call_get_me(token) ==
    /\ users' = get_me(token).table
    /\ UNCHANGED <<dialect, now, pending, categories, transactions, receipt, sessions>>

call_logout(token) ==
    /\ users' = logout(token).table
    /\ UNCHANGED <<dialect, now, pending, categories, transactions, receipt, sessions>>

Tick ==
    /\ now < MaxTicks * TickMinutes
    /\ now' = now + TickMinutes
    /\ UNCHANGED <<dialect, users, pending, categories, transactions, receipt, sessions>>

-----------------------------------------------------------------------------
(* Request bodies.  A body is a record over the model's fields; a field the *)
(* client did not send holds the Unset mark of its type.                    *)

StrFields == {"name", "type", "merchant"}
Unset(f) == IF f \in StrFields THEN UnsetStr ELSE UnsetInt
IsSet(data, f) == f \in DOMAIN data /\ data[f] # Unset(f)

CategoryNames == {"food", "rent"}
Merchants == {"shop"}

(* What a body says about the three fields the server owns: nothing, or an *)
(* id, an owner and a creation time of the client's choosing.              *)
ServerFields ==
    {[id |-> UnsetInt, user_id |-> UnsetInt, created_at |-> UnsetInt],
     [id |-> 1, user_id |-> 1, created_at |-> 5],
     [id |-> 2, user_id |-> 2, created_at |-> 5]}

CategoryBodies ==
    {[id |-> f.id, user_id |-> f.user_id, created_at |-> f.created_at,
      name |-> n, type |-> UnsetStr] : f \in ServerFields, n \in CategoryNames}

(* complete bodies, and bodies without a usable category_id or merchant; *)
(* all of them an expense of 30 dated 2024-01-01.  Amounts are written in  *)
(* thousandths: 30000 is 30.000.                                            *)
TransactionBodies ==
    {[id |-> f.id, user_id |-> f.user_id, created_at |-> f.created_at,
      category_id |-> c, merchant |-> m,
      type |-> "expense", amount |-> 30000, date |-> 738886] :
        f \in ServerFields, c \in 1..MaxCategories, m \in Merchants}
    \cup
    {[id |-> UnsetInt, user_id |-> UnsetInt, created_at |-> UnsetInt,
      category_id |-> c, merchant |-> m,
      type |-> "expense", amount |-> 30000, date |-> 738886] :
        c \in {UnsetInt, 0, 1}, m \in {UnsetStr, ""} \cup Merchants}

CategoryIds == 1..MaxCategories
TransactionIds == 1..MaxTransactions
LedgerIds == 1..MaxLedger

-----------------------------------------------------------------------------
(* The database *)

(* SQLite compares a TEXT column with an integer parameter after turning    *)
(* the integer into text.                                                   *)
IdAsText(n) ==
    CASE n = 1 -> "1" [] n = 2 -> "2" [] n = 3 -> "3" [] OTHER -> "4"

(* INTEGER PRIMARY KEY: one more than the largest id in the table *)
NextId(rows) == IF rows = {} THEN 1 ELSE Max({r.id : r \in rows}) + 1

(* The id a row gets on INSERT: its own if the object carries one *)
InsertId(obj, rows) == IF obj.id = UnsetInt THEN NextId(rows) ELSE obj.id

-----------------------------------------------------------------------------
(* Dates (datetime.date).  A date is its proleptic Gregorian ordinal, the   *)
(* number date.toordinal() gives: adding a timedelta of n days adds n, and  *)
(* dates compare as numbers.  A datetime column holds the day; the time of  *)
(* day plays no part, _start_of_day and _end_of_day bound the whole day.    *)

IsLeap(y) == y % 4 = 0 /\ (y % 100 # 0 \/ y % 400 = 0)

DaysInMonth(y, m) ==
    <<31, IF IsLeap(y) THEN 29 ELSE 28, 31, 30, 31, 30, 31, 31, 30, 31, 30, 31>>[m]

DaysBeforeYear(y) ==
    365 * (y - 1) + ((y - 1) \div 4) - ((y - 1) \div 100) + ((y - 1) \div 400)

DaysBeforeMonth(y, m) ==
    <<0, 31, 59, 90, 120, 151, 181, 212, 243, 273, 304, 334>>[m]
        + (IF m > 2 /\ IsLeap(y) THEN 1 ELSE 0)

(* date(y, m, d) raises ValueError outside these ranges *)
ValidDate(y, m, d) ==
    /\ y \in 1..9999
    /\ m \in 1..12
    /\ d \in 1..DaysInMonth(y, m)

Date(y, m, d) == DaysBeforeYear(y) + DaysBeforeMonth(y, m) + d

YearOf(n) ==
    CHOOSE y \in ((400 * n) \div 146097)..(((400 * n) \div 146097) + 2) :
        DaysBeforeYear(y) < n /\ n <= DaysBeforeYear(y + 1)

MonthIn(y, day_of_year) ==
    CHOOSE m \in 1..12 :
        /\ DaysBeforeMonth(y, m) < day_of_year
        /\ day_of_year <= DaysBeforeMonth(y, m) + DaysInMonth(y, m)

MonthOf(n) == MonthIn(YearOf(n), n - DaysBeforeYear(YearOf(n)))

DayOf(n) == n - Date(YearOf(n), MonthOf(n), 1) + 1

(* strftime("%Y-%m", ...) and f"{year:04d}-{month:02d}": year and month *)
MonthKey(n) == <<YearOf(n), MonthOf(n)>>

(* The clock counts minutes from the start of 2024-01-01. *)
MinutesPerDay == 24 * 60
EpochDay == Date(2024, 1, 1)
MinutesAt(y, m, d) == (Date(y, m, d) - EpochDay) * MinutesPerDay

(* app/api/v1/reports.py, helpers *)

_today == EpochDay + (now \div MinutesPerDay)

_start_of_month(d) == Date(YearOf(d), MonthOf(d), 1)

_end_of_month(d) ==
    IF MonthOf(d) = 12
    THEN Date(YearOf(d), 12, 31)
    ELSE Date(YearOf(d), MonthOf(d) + 1, 1) - 1

MonthAdd(year, month, day, months) ==
    LET y == year + ((month - 1 + months) \div 12)
        m == ((month - 1 + months) % 12) + 1 IN
    Date(y, m, IF day < DaysInMonth(y, m) THEN day ELSE DaysInMonth(y, m))

_month_add(d, months) == MonthAdd(YearOf(d), MonthOf(d), DayOf(d), months)

_date_range(start, end) ==
    [i \in 1..(IF end >= start THEN end - start + 1 ELSE 0) |-> start + i - 1]

(* the loop of _last_n_month_keys: the key of cur is put before the keys *)
(* of the later months, then cur steps one month back, until n keys stand *)
RECURSIVE MonthsBack(_, _, _)
MonthsBack(keys, cur, n) ==
    IF Len(keys) >= n THEN keys
    ELSE MonthsBack(<<MonthKey(cur)>> \o keys, _month_add(cur, -1), n)

_last_n_month_keys(n) == MonthsBack(<<>>, _start_of_month(_today), n)

-----------------------------------------------------------------------------
(* Mutation safety (categories.py 23-49, transactions.py 81-93) *)

FORBIDDEN_MUTATION_FIELDS == {"id", "user_id", "created_at"}

(* the payload applied as it came *)
PopForbidden_Nothing(data) == data

PopForbidden(data) ==
    [f \in DOMAIN data |->
        IF f \in FORBIDDEN_MUTATION_FIELDS THEN Unset(f) ELSE data[f]]

_apply_updates_safe(obj, data) ==
    LET d == PopForbidden(data) IN
    [f \in DOMAIN obj |-> IF IsSet(d, f) THEN d[f] ELSE obj[f]]

-----------------------------------------------------------------------------
(* app/models/category.py, app/api/v1/categories.py *)

Category(data) ==
    [id |-> data.id,
     user_id |-> data.user_id,
     name |-> data.name,
     type |-> IF IsSet(data, "type") THEN data.type ELSE "general",
     created_at |-> IF IsSet(data, "created_at") THEN data.created_at ELSE now]

OwnCategory(category_id, current_user) ==
    {c \in categories : c.id = category_id /\ c.user_id = current_user}

list_categories(token) ==
    LET auth == get_current_user(token) IN
    IF auth.status # 200
    THEN Unauthorized(auth, categories)
    ELSE Response(200, "", {c \in categories : c.user_id = auth.user}, categories)

get_category(token, category_id) ==
    LET auth == get_current_user(token)
        row == OwnCategory(category_id, auth.user) IN
    IF auth.status # 200
    THEN Unauthorized(auth, categories)
    ELSE IF row = {}
         THEN Response(404, "Category not found", {}, categories)
         ELSE Response(200, "", row, categories)

(* line 105: select(User).where(User.email == current_user), where         *)
(* current_user is the numeric id get_current_user returned                 *)
UserByEmailEqualsId(current_user) ==
    {u \in users : u.email = IdAsText(current_user)}

create_category(token, body) ==
    LET auth == get_current_user(token)
        obj == Category(PopForbidden(body))
        user == UserByEmailEqualsId(auth.user) IN
    IF auth.status # 200
    THEN Unauthorized(auth, categories)
    ELSE IF dialect = "postgresql"
    THEN \* varchar = integer: the engine rejects the statement
         Response(500, "ProgrammingError", {}, categories)
    ELSE IF user = {}
    THEN Response(404, "User not found", {}, categories)
    ELSE LET row == [obj EXCEPT !.user_id = (CHOOSE u \in user : TRUE).id,
                                !.id = InsertId(obj, categories)] IN
         IF \E c \in categories : c.id = row.id
         THEN Response(500, "IntegrityError", {}, categories)
         ELSE Response(201, "", {row}, categories \cup {row})

update_category(token, category_id, body) ==
    LET auth == get_current_user(token)
        existing == OwnCategory(category_id, auth.user) IN
    IF auth.status # 200
    THEN Unauthorized(auth, categories)
    ELSE IF existing = {}
    THEN Response(404, "Category not found", {}, categories)
    ELSE LET old == CHOOSE c \in existing : TRUE
             row == [_apply_updates_safe(old, body) EXCEPT !.user_id = auth.user] IN
         Response(200, "", {row}, (categories \ {old}) \cup {row})

delete_category(token, category_id) ==
    LET auth == get_current_user(token)
        existing == OwnCategory(category_id, auth.user) IN
    IF auth.status # 200
    THEN Unauthorized(auth, categories)
    ELSE IF existing = {}
    THEN Response(404, "Category not found", {}, categories)
    ELSE IF dialect = "postgresql" /\ \E t \in transactions : t.category_id = category_id
    THEN \* transaction.category_id is a foreign key the engine enforces
         Response(500, "IntegrityError", {}, categories)
    ELSE Response(200, "Category deleted successfully", {}, categories \ existing)

call_list_categories(token) ==
    /\ categories' = list_categories(token).table
    /\ UNCHANGED <<dialect, now, users, pending, transactions, receipt, sessions>>

call_get_category(token, category_id) ==
    /\ categories' = get_category(token, category_id).table
    /\ UNCHANGED <<dialect, now, users, pending, transactions, receipt, sessions>>

call_create_category(token, body) ==
    /\ \A c \in create_category(token, body).table : c.id \in CategoryIds
    /\ categories' = create_category(token, body).table
    /\ UNCHANGED <<dialect, now, users, pending, transactions, receipt, sessions>>

call_update_category(token, category_id, body) ==
    /\ categories' = update_category(token, category_id, body).table
    /\ UNCHANGED <<dialect, now, users, pending, transactions, receipt, sessions>>

call_delete_category(token, category_id) ==
    /\ categories' = delete_category(token, category_id).table
    /\ UNCHANGED <<dialect, now, users, pending, transactions, receipt, sessions>>

-----------------------------------------------------------------------------
(* app/models/transaction.py, app/api/v1/transactions.py *)

Transaction(data) ==
    [id |-> data.id,
     user_id |-> data.user_id,
     category_id |-> data.category_id,
     merchant |-> data.merchant,
     type |-> data.type,
     amount |-> data.amount,
     date |-> data.date,
     created_at |-> IF IsSet(data, "created_at") THEN data.created_at ELSE now,
     updated_at |-> now]

_stamp_updated(obj) == [obj EXCEPT !.updated_at = now]

(* the lookup without its owner condition *)
OwnTransaction_ById(transaction_id, current_user) ==
    {t \in transactions : t.id = transaction_id}

OwnTransaction(transaction_id, current_user) ==
    {t \in transactions : t.id = transaction_id /\ t.user_id = current_user}

(* "k not in data" in place of "not data.get(k)" *)
Missing_KeyOnly(data, f) == ~IsSet(data, f)

(* "not data.get(k)": the key is absent, or its value is 0 or "" *)
Missing(data, f) ==
    \/ ~IsSet(data, f)
    \/ data[f] = (IF f \in StrFields THEN "" ELSE 0)

create_transaction(token, body) ==
    LET auth == get_current_user(token) IN
    IF auth.status # 200
    THEN Unauthorized(auth, transactions)
    ELSE IF Missing(body, "category_id")
    THEN Response(400, "Category ID is required.", {}, transactions)
    ELSE IF Missing(body, "merchant")
    THEN Response(400, "Merchant is required.", {}, transactions)
    ELSE IF ~\E c \in categories : c.id = body.category_id
    THEN Response(400, "Invalid category ID.", {}, transactions)
    ELSE LET obj == Transaction(PopForbidden(body))
             row == _stamp_updated([obj EXCEPT !.user_id = auth.user,
                                               !.id = InsertId(obj, transactions)]) IN
         IF \E t \in transactions : t.id = row.id
         THEN Response(500, "IntegrityError", {}, transactions)
         ELSE Response(201, "", {row}, transactions \cup {row})

(* Query parameters of GET /transactions; a parameter the request does not *)
(* carry holds None (type) or the unset mark (the others).                  *)
Query(start_date, end_date, type, category_id, page, per_page) ==
    [start_date |-> start_date, end_date |-> end_date, type |-> type,
     category_id |-> category_id, page |-> page, per_page |-> per_page]

(* the parameters' defaults: no filter, page = 1, per_page = 15 *)
DefaultQuery == Query(UnsetInt, UnsetInt, None, UnsetInt, 1, 15)

(* "if start_date:", "if end_date:", "if txn_type:", "if category_id:" *)
Truthy(q, f) ==
    IF f = "type" THEN q[f] # None /\ q[f] # ""
    ELSE q[f] # UnsetInt /\ (f = "category_id" => q[f] # 0)

(* the WHERE clause the handler builds *)
ListWhere(current_user, q) ==
    {t \in transactions :
        /\ t.user_id = current_user
        /\ Truthy(q, "start_date") => t.date >= q.start_date
        /\ Truthy(q, "end_date") => t.date <= q.end_date
        /\ Truthy(q, "type") => t.type = q.type
        /\ Truthy(q, "category_id") => t.category_id = q.category_id}

(* ORDER BY date DESC alone: rows of one date come in any order *)
Precedes_DateOnly(t, u) == t.date >= u.date

(* t is not after u under date DESC, id DESC *)
Precedes(t, u) ==
    \/ t.date > u.date
    \/ (t.date = u.date /\ t.id >= u.id)

(* ORDER BY date DESC, id DESC *)
RECURSIVE OrderByDateIdDesc(_)
OrderByDateIdDesc(rows) ==
    IF rows = {} THEN <<>>
    ELSE LET first == CHOOSE t \in rows : \A u \in rows : Precedes(t, u) IN
         <<first>> \o OrderByDateIdDesc(rows \ {first})

(* LIMIT lim without the OFFSET *)
OffsetLimit_NoOffset(seq, off, lim) ==
    SubSeq(seq, 1, IF lim < Len(seq) THEN lim ELSE Len(seq))

(* OFFSET off LIMIT lim *)
OffsetLimit(seq, off, lim) ==
    SubSeq(seq, off + 1, IF off + lim < Len(seq) THEN off + lim ELSE Len(seq))

list_transactions_page(token, q) ==
    LET auth == get_current_user(token)
        page == IF q.page > 1 THEN q.page ELSE 1
        per_page == IF q.per_page > 100 THEN 100
                    ELSE IF q.per_page < 1 THEN 1 ELSE q.per_page
        matching == ListWhere(auth.user, q)
        total_count == Cardinality(matching) IN
    IF auth.status # 200
    THEN Unauthorized(auth, transactions)
    ELSE [status |-> 200, detail |-> "",
          data |-> OffsetLimit(OrderByDateIdDesc(matching),
                               (page - 1) * per_page, per_page),
          pagination |-> [total_count |-> total_count,
                          current_page |-> page,
                          per_page |-> per_page,
                          total_pages |-> (total_count + per_page - 1) \div per_page],
          table |-> transactions]

(* GET /transactions without query parameters *)
list_transactions(token) ==
    LET out == list_transactions_page(token, DefaultQuery) IN
    IF out.status # 200
    THEN out
    ELSE Response(200, "", {out.data[i] : i \in DOMAIN out.data}, transactions)

get_transaction(token, transaction_id) ==
    LET auth == get_current_user(token)
        row == OwnTransaction(transaction_id, auth.user) IN
    IF auth.status # 200
    THEN Unauthorized(auth, transactions)
    ELSE IF row = {}
         THEN Response(404, "Transaction not found", {}, transactions)
         ELSE Response(200, "", row, transactions)

update_transaction(token, transaction_id, body) ==
    LET auth == get_current_user(token)
        found == OwnTransaction(transaction_id, auth.user) IN
    IF auth.status # 200
    THEN Unauthorized(auth, transactions)
    ELSE IF Missing(body, "category_id")
    THEN Response(400, "Category ID is required.", {}, transactions)
    ELSE IF Missing(body, "merchant")
    THEN Response(400, "Merchant is required.", {}, transactions)
    ELSE IF found = {}
    THEN Response(404, "Transaction not found", {}, transactions)
    ELSE LET old == CHOOSE t \in found : TRUE
             row == _stamp_updated(
                        [_apply_updates_safe(old, body) EXCEPT !.user_id = auth.user]) IN
         IF dialect = "postgresql" /\ ~\E c \in categories : c.id = row.category_id
         THEN \* transaction.category_id is a foreign key the engine enforces
              Response(500, "IntegrityError", {}, transactions)
         ELSE Response(200, "", {row}, (transactions \ {old}) \cup {row})

delete_transaction(token, transaction_id) ==
    LET auth == get_current_user(token)
        found == OwnTransaction(transaction_id, auth.user) IN
    IF auth.status # 200
    THEN Unauthorized(auth, transactions)
    ELSE IF found = {}
    THEN Response(404, "Transaction not found", {}, transactions)
    ELSE Response(200, "Transaction deleted successfully", {}, transactions \ found)

call_create_transaction(token, body) ==
    /\ \A t \in create_transaction(token, body).table : t.id \in TransactionIds
    /\ transactions' = create_transaction(token, body).table
    /\ UNCHANGED <<dialect, now, users, pending, categories, receipt, sessions>>

(* POST /transactions while the ledger holds fewer than MaxLedger rows *)
call_create_transaction_ledger(token, body) ==
    /\ \A t \in create_transaction(token, body).table : t.id \in LedgerIds
    /\ transactions' = create_transaction(token, body).table
    /\ UNCHANGED <<dialect, now, users, pending, categories, receipt, sessions>>

call_list_transactions_page(token, q) ==
    /\ transactions' = list_transactions_page(token, q).table
    /\ UNCHANGED <<dialect, now, users, pending, categories, receipt, sessions>>

call_list_transactions(token) ==
    /\ transactions' = list_transactions(token).table
    /\ UNCHANGED <<dialect, now, users, pending, categories, receipt, sessions>>

call_get_transaction(token, transaction_id) ==
    /\ transactions' = get_transaction(token, transaction_id).table
    /\ UNCHANGED <<dialect, now, users, pending, categories, receipt, sessions>>

call_update_transaction(token, transaction_id, body) ==
    /\ transactions' = update_transaction(token, transaction_id, body).table
    /\ UNCHANGED <<dialect, now, users, pending, categories, receipt, sessions>>

call_delete_transaction(token, transaction_id) ==
    /\ transactions' = delete_transaction(token, transaction_id).table
    /\ UNCHANGED <<dialect, now, users, pending, categories, receipt, sessions>>

-----------------------------------------------------------------------------
(* app/api/v1/reports.py: series_daily, series_monthly, categories_pie,    *)
(* summary_cards, compare_mom, forecast_next_month, summary_report,         *)
(* report_by_category, report_by_day, monthly_cashflow.  Each reads the     *)
(* caller's transactions after get_current_user; none writes.               *)

reports(token) ==
    LET auth == get_current_user(token) IN
    IF auth.status # 200
    THEN Unauthorized(auth, transactions)
    ELSE Response(200, "", {t \in transactions : t.user_id = auth.user}, transactions)

call_reports(token) ==
    /\ transactions' = reports(token).table
    /\ UNCHANGED <<dialect, now, users, pending, categories, receipt, sessions>>

(* The report routes one by one.  A response carries what the route puts   *)
(* into its JSON body; table is the transaction table as the route leaves it. *)

(* func.lower(Transaction.type) *)
Lower(s) ==
    CASE s = "Expense" -> "expense"
      [] s = "Income" -> "income"
      [] s = "Transfer" -> "transfer"
      [] OTHER -> s

(* SUM(amount) over rows; no row gives NULL, which "or 0" turns into 0 *)
RECURSIVE SumAmount(_)
SumAmount(rows) ==
    IF rows = {} THEN 0
    ELSE LET t == CHOOSE t \in rows : TRUE IN t.amount + SumAmount(rows \ {t})

(* lines 81-85: SUM(CASE WHEN lower(type) = <type> THEN amount ELSE 0 END) *)
_income_sum_expr(rows) == SumAmount({t \in rows : Lower(t.type) = "income"})
_expense_sum_expr(rows) == SumAmount({t \in rows : Lower(t.type) = "expense"})

(* round(x, 2) of an amount in thousandths *)
Round2(x) == ((x + 5) \div 10) * 10

(* round(total / n, 2) *)
RoundMean2(total, n) == ((2 * total + 10 * n) \div (20 * n)) * 10

(* WHERE user_id = current_user AND date BETWEEN start-of-day AND end-of-day *)
OwnBetween(current_user, start, end) ==
    {t \in transactions : t.user_id = current_user /\ start <= t.date /\ t.date <= end}

(* Query(..., ge=lo, le=hi): FastAPI answers 422 outside the range *)
Unprocessable == Response(422, "Unprocessable Entity", {}, transactions)

(* strftime is a function of SQLite; PostgreSQL has none of that name *)
NoStrftime == Response(500, "ProgrammingError", {}, transactions)

series_daily(token, days) ==
    LET auth == get_current_user(token)
        end_d == _today
        start_d == end_d - (days - 1) IN
    IF auth.status # 200 THEN Unauthorized(auth, transactions)
    ELSE IF days \notin 1..180 THEN Unprocessable
    ELSE IF dialect = "postgresql" THEN NoStrftime
    ELSE LET range == _date_range(start_d, end_d) IN
         [status |-> 200, detail |-> "",
          range |-> [start |-> start_d, end |-> end_d],
          series |->
              [i \in DOMAIN range |->
                  LET rows == OwnBetween(auth.user, range[i], range[i])
                      income == _income_sum_expr(rows)
                      expense == _expense_sum_expr(rows) IN
                  [date |-> range[i],
                   income |-> Round2(income),
                   expense |-> Round2(expense),
                   net |-> Round2(income - expense)]],
          table |-> transactions]

series_monthly(token, months) ==
    LET auth == get_current_user(token) IN
    IF auth.status # 200 THEN Unauthorized(auth, transactions)
    ELSE IF months \notin 1..36 THEN Unprocessable
    ELSE IF dialect = "postgresql" THEN NoStrftime
    ELSE LET keys == _last_n_month_keys(months) IN
         [status |-> 200, detail |-> "",
          series |->
              [i \in DOMAIN keys |->
                  LET rows == {t \in transactions :
                                  t.user_id = auth.user /\ MonthKey(t.date) = keys[i]}
                      income == _income_sum_expr(rows)
                      expense == _expense_sum_expr(rows) IN
                  [month |-> keys[i],
                   income |-> Round2(income),
                   expense |-> Round2(expense),
                   net |-> Round2(income - expense)]],
          table |-> transactions]

(* Query("expense", pattern="^(income|expense)$") *)
PieTypes == {"income", "expense"}

(* the value of a slice, taken as the aggregate came *)
SliceValue_Raw(total) == total

(* "value": round(float(total or 0), 2) *)
SliceValue(total) == Round2(total)

(* sum(x["value"] for x in slices) *)
RECURSIVE SumValue(_)
SumValue(slices) ==
    IF slices = {} THEN 0
    ELSE LET x == CHOOSE x \in slices : TRUE IN x.value + SumValue(slices \ {x})

categories_pie(token, year, month, type) ==
    LET auth == get_current_user(token)
        y == IF year = UnsetInt \/ year = 0 THEN YearOf(_today) ELSE year
        m == IF month = UnsetInt \/ month = 0 THEN MonthOf(_today) ELSE month IN
    IF auth.status # 200 THEN Unauthorized(auth, transactions)
    ELSE IF type \notin PieTypes THEN Unprocessable
    ELSE IF ~ValidDate(y, m, 1)
    THEN \* date(year, month, 1) raises ValueError
         Response(500, "ValueError", {}, transactions)
    ELSE LET rows == {t \in OwnBetween(auth.user, Date(y, m, 1), _end_of_month(Date(y, m, 1))) :
                         Lower(t.type) = type}
             \* the join keeps a row once for every category that has its category_id
             groups == {c \in categories : \E t \in rows : t.category_id = c.id}
             slices == {[category_id |-> c.id,
                         category_name |-> IF c.name = None THEN "Uncategorized" ELSE c.name,
                         value |-> SliceValue(SumAmount({t \in rows : t.category_id = c.id}))] :
                        c \in groups} IN
         [status |-> 200, detail |-> "", year |-> y, month |-> m, type |-> type,
          total |-> Round2(SumValue(slices)),
          slices |-> slices,
          table |-> transactions]

(* _sum_between of summary_cards *)
_sum_between(current_user, t_type, s, e) ==
    SumAmount({t \in OwnBetween(current_user, s, e) : Lower(t.type) = t_type})

summary_cards(token) ==
    LET auth == get_current_user(token)
        this_s == _start_of_month(_today)
        this_e == _end_of_month(_today)
        last_m == _month_add(this_s, -1)
        last_s == _start_of_month(last_m)
        last_e == _end_of_month(last_m) IN
    IF auth.status # 200 THEN Unauthorized(auth, transactions)
    ELSE LET this_inc == _sum_between(auth.user, "income", this_s, this_e)
             this_exp == _sum_between(auth.user, "expense", this_s, this_e)
             last_inc == _sum_between(auth.user, "income", last_s, last_e)
             last_exp == _sum_between(auth.user, "expense", last_s, last_e) IN
         [status |-> 200, detail |-> "",
          this_month |-> [month |-> MonthKey(this_s),
                          income |-> Round2(this_inc),
                          expense |-> Round2(this_exp),
                          net |-> Round2(this_inc - this_exp)],
          last_month |-> [month |-> MonthKey(last_s),
                          income |-> Round2(last_inc),
                          expense |-> Round2(last_exp),
                          net |-> Round2(last_inc - last_exp)],
          delta |-> [income |-> Round2(this_inc - last_inc),
                     expense |-> Round2(this_exp - last_exp),
                     net |-> Round2((this_inc - this_exp) - (last_inc - last_exp))],
          table |-> transactions]

(* base_months of forecast_next_month: the lookback months, the current one cut off *)
base_months(lookback_months) ==
    SubSeq(_last_n_month_keys(lookback_months + 1), 1, lookback_months)

(* the caller's expense rows of the lookback window, cat_stmt's WHERE clause *)
LookbackExpenses(current_user, lookback_months) ==
    LET keys == base_months(lookback_months)
        first_m == Date(keys[1][1], keys[1][2], 1)
        last_m == Date(keys[Len(keys)][1], keys[Len(keys)][2], 1) IN
    {t \in OwnBetween(current_user, first_m, _end_of_month(last_m)) :
        Lower(t.type) = "expense"}

(* the month sums of the caller for a list of month keys, one type *)
MonthSums(current_user, type, keys) ==
    [i \in DOMAIN keys |->
        SumAmount({t \in transactions :
                      /\ t.user_id = current_user
                      /\ Lower(t.type) = type
                      /\ MonthKey(t.date) = keys[i]})]

RECURSIVE SumSeq(_)
SumSeq(vals) == IF vals = <<>> THEN 0 ELSE Head(vals) + SumSeq(Tail(vals))

forecast_next_month(token, lookback_months) ==
    LET auth == get_current_user(token) IN
    IF auth.status # 200 THEN Unauthorized(auth, transactions)
    ELSE IF lookback_months \notin 2..12 THEN Unprocessable
    ELSE IF dialect = "postgresql" THEN NoStrftime
    ELSE LET keys == base_months(lookback_months)
             inc_vals == MonthSums(auth.user, "income", keys)
             exp_vals == MonthSums(auth.user, "expense", keys)
             inc_forecast == RoundMean2(SumSeq(inc_vals), Max({1, Len(inc_vals)}))
             exp_forecast == RoundMean2(SumSeq(exp_vals), Max({1, Len(exp_vals)}))
             rows == {t.category_id : t \in LookbackExpenses(auth.user, lookback_months)} IN
         IF rows # {}
         THEN \* the loop over rows calls db.exec; the session of sessionmaker has no exec
              Response(500, "AttributeError", {}, transactions)
         ELSE [status |-> 200, detail |-> "",
               lookback_months |-> lookback_months,
               history |-> [months |-> keys,
                            income |-> [i \in DOMAIN inc_vals |-> Round2(inc_vals[i])],
                            expense |-> [i \in DOMAIN exp_vals |-> Round2(exp_vals[i])]],
               forecast_for |-> MonthKey(_month_add(_start_of_month(_today), 1)),
               forecast |-> [income |-> inc_forecast,
                             expense |-> exp_forecast,
                             net |-> Round2(inc_forecast - exp_forecast),
                             by_category |-> {}],
               table |-> transactions]

call_series_daily(token, days) ==
    /\ transactions' = series_daily(token, days).table
    /\ UNCHANGED <<dialect, now, users, pending, categories, receipt, sessions>>

call_series_monthly(token, months) ==
    /\ transactions' = series_monthly(token, months).table
    /\ UNCHANGED <<dialect, now, users, pending, categories, receipt, sessions>>

call_categories_pie(token, year, month, type) ==
    /\ transactions' = categories_pie(token, year, month, type).table
    /\ UNCHANGED <<dialect, now, users, pending, categories, receipt, sessions>>

call_forecast_next_month(token, lookback_months) ==
    /\ transactions' = forecast_next_month(token, lookback_months).table
    /\ UNCHANGED <<dialect, now, users, pending, categories, receipt, sessions>>

call_summary_cards(token) ==
    /\ transactions' = summary_cards(token).table
    /\ UNCHANGED <<dialect, now, users, pending, categories, receipt, sessions>>

(* app/api/v1/receipts.py *)

(* the list with text/plain let in *)
ALLOWED_MIME_Text ==
    {"application/pdf", "image/jpeg", "image/png", "image/webp", "image/tiff",
     "text/plain"}

ALLOWED_MIME ==
    {"application/pdf", "image/jpeg", "image/png", "image/webp", "image/tiff"}

MimeInputs == {"application/pdf", "image/png", "text/plain", None}

(* what the external API does with the upload and the extraction request *)
UpstreamOutcomes == {"ok", "failed", "bad_shape"}

parse_receipt_file(token, mime, upstream) ==
    LET auth == get_current_user(token) IN
    IF auth.status # 200
    THEN Unauthorized(auth, transactions)
    ELSE IF mime \notin ALLOWED_MIME
    THEN Response(400, "Unsupported file type", {}, transactions)
    ELSE IF upstream # "ok"
    THEN Response(500, "Gemini error", {}, transactions)
    ELSE Response(200, "", {}, transactions)

call_parse_receipt_file(token, mime, upstream) ==
    /\ transactions' = parse_receipt_file(token, mime, upstream).table
    /\ UNCHANGED <<dialect, now, users, pending, categories, receipt, sessions>>

(* parse_receipt_file step by step: the handler between its outbound calls. *)
(* calls is the list of requests.post calls the request has made so far,    *)
(* answers what came back for each.                                          *)

NoReceipt ==
    [pc |-> "idle", mime |-> None, calls |-> <<>>, answers |-> <<>>,
     status |-> 0, detail |-> "", parsed |-> FALSE]

(* what the other side answers to each call *)
StartOutcomes == {"ok", "no_upload_url"}
FinalizeOutcomes == {"ok", "not_ok", "no_file_uri"}
ExtractOutcomes == {"ok", "not_ok", "bad_shape"}

(* lines 129-141: the dependency, then the content-type check *)
receipt_request(token, mime) ==
    /\ receipt.pc = "idle"
    /\ LET auth == get_current_user(token)
           r == [receipt EXCEPT !.mime = mime] IN
       receipt' =
           IF auth.status # 200
           THEN [r EXCEPT !.pc = "done", !.status = auth.status, !.detail = auth.detail]
           ELSE IF mime \notin ALLOWED_MIME
           THEN [r EXCEPT !.pc = "done", !.status = 400,
                          !.detail = "Unsupported file type"]
           ELSE [r EXCEPT !.pc = "upload_start"]
    /\ UNCHANGED <<dialect, now, users, pending, categories, transactions, sessions>>

(* gemini_upload_bytes, lines 24-38 *)
upload_start(outcome) ==
    /\ receipt.pc = "upload_start"
    /\ LET r == [receipt EXCEPT !.calls = Append(@, "upload-start"),
                             !.answers = Append(@, outcome)] IN
       receipt' =
           IF outcome = "ok"
           THEN [r EXCEPT !.pc = "upload_finalize"]
           ELSE [r EXCEPT !.pc = "done", !.status = 500,
                          !.detail = "Gemini upload start failed"]
    /\ UNCHANGED <<dialect, now, users, pending, categories, transactions, sessions>>

(* the finalize answer taken without looking at up.ok *)
upload_finalize_Unchecked(outcome) ==
    /\ receipt.pc = "upload_finalize"
    /\ receipt' = [receipt EXCEPT !.calls = Append(@, "upload-finalize"),
                                  !.answers = Append(@, outcome),
                                  !.pc = "extraction"]
    /\ UNCHANGED <<dialect, now, users, pending, categories, transactions, sessions>>

(* gemini_upload_bytes, lines 40-56 *)
upload_finalize(outcome) ==
    /\ receipt.pc = "upload_finalize"
    /\ LET r == [receipt EXCEPT !.calls = Append(@, "upload-finalize"),
                             !.answers = Append(@, outcome)] IN
       receipt' =
           CASE outcome = "ok" -> [r EXCEPT !.pc = "extraction"]
             [] outcome = "not_ok" ->
                  [r EXCEPT !.pc = "done", !.status = 500,
                            !.detail = "Gemini upload finalize failed"]
             [] OTHER ->
                  [r EXCEPT !.pc = "done", !.status = 500,
                            !.detail = "Gemini upload returned no file URI"]
    /\ UNCHANGED <<dialect, now, users, pending, categories, transactions, sessions>>

(* gemini_parse_file, lines 112-127, and the return of lines 145-150 *)
extraction(outcome) ==
    /\ receipt.pc = "extraction"
    /\ LET r == [receipt EXCEPT !.calls = Append(@, "extraction"),
                             !.answers = Append(@, outcome)] IN
       receipt' =
           CASE outcome = "ok" ->
                  [r EXCEPT !.pc = "done", !.status = 200, !.parsed = TRUE]
             [] outcome = "not_ok" ->
                  [r EXCEPT !.pc = "done", !.status = 500,
                            !.detail = "Gemini parse failed"]
             [] OTHER ->
                  [r EXCEPT !.pc = "done", !.status = 500,
                            !.detail = "Gemini returned unexpected shape"]
    /\ UNCHANGED <<dialect, now, users, pending, categories, transactions, sessions>>

(* the response is sent; the next request can come *)
receipt_respond ==
    /\ receipt.pc = "done"
    /\ receipt' = NoReceipt
    /\ UNCHANGED <<dialect, now, users, pending, categories, transactions, sessions>>

-----------------------------------------------------------------------------
(* Database sessions.  SessionLocal() opens a session; close() and the end *)
(* of a "with" block release it.  The actions above take a request as one  *)
(* step and leave sessions alone; the actions below follow a request       *)
(* through the places where it opens and releases sessions:                *)
(*   register            auth.py 26-41                                      *)
(*   login               auth.py 43-65                                      *)
(*   list_transactions   transactions.py 16-21 (get_db), security.py 42-58  *)
(*                       (get_current_user), transactions.py 150-198        *)

NoRequest ==
    [pc |-> "idle", route |-> "", no |-> 0, db |-> 0, lookup |-> 0,
     email |-> "", token |-> NoToken]

NoSessions ==
    [req |-> [r \in Requests |-> NoRequest], open |-> {}, started |-> 0, opened |-> 0]

SessionRoutes == {"register", "login", "list_transactions"}

(* the request bodies and tokens the followed requests carry *)
SessionEmails == {"1"}
SessionTokens == {Token(TRUE, "1", ACCESS_TOKEN_EXPIRE_MINUTES), NoToken}

SessionBody(email) == [email |-> email, password |-> "p", full_name |-> None]

Running(r) == sessions.req[r].pc # "idle"

(* db = SessionLocal() by request slot r *)
SessionLocal(r, by) ==
    [id |-> sessions.opened + 1, request |-> sessions.req[r].no, by |-> by]

(* db.close() *)
Closed(id) == {s \in sessions.open : s.id # id}

request_begin(r, route, email, token) ==
    /\ ~Running(r)
    /\ sessions.started < MaxServed
    /\ sessions' = [sessions EXCEPT
          !.started = @ + 1,
          !.req[r] = [pc |-> CASE route = "register" -> "register_open"
                               [] route = "login" -> "login_open"
                               [] OTHER -> "get_db",
                      route |-> route, no |-> sessions.started + 1,
                      db |-> 0, lookup |-> 0,
                      email |-> IF route = "list_transactions" THEN "" ELSE email,
                      token |-> IF route = "list_transactions" THEN token ELSE NoToken]]
    /\ UNCHANGED <<dialect, now, users, pending, categories, transactions, receipt>>

(* auth.py 28: db = SessionLocal() *)
register_open(r) ==
    /\ sessions.req[r].pc = "register_open"
    /\ sessions' = [sessions EXCEPT
          !.opened = @ + 1,
          !.open = @ \cup {SessionLocal(r, "register")},
          !.req[r].db = sessions.opened + 1,
          !.req[r].pc = "register_run"]
    /\ UNCHANGED <<dialect, now, users, pending, categories, transactions, receipt>>

(* auth.py 29-41: the SELECT, then 400 or INSERT, COMMIT and the token; or  *)
(* a statement fails.  No path closes db.                                   *)
register_run(r, fault) ==
    /\ sessions.req[r].pc = "register_run"
    /\ \A q \in Requests : ~pending[q].active
    /\ IF fault
       THEN users' = users
       ELSE /\ Cardinality(register(SessionBody(sessions.req[r].email)).table) <= MaxUsers
            /\ users' = register(SessionBody(sessions.req[r].email)).table
    /\ sessions' = [sessions EXCEPT !.req[r] = NoRequest]
    /\ UNCHANGED <<dialect, now, pending, categories, transactions, receipt>>

(* auth.py 47: with SessionLocal() as db *)
login_open(r) ==
    /\ sessions.req[r].pc = "login_open"
    /\ sessions' = [sessions EXCEPT
          !.opened = @ + 1,
          !.open = @ \cup {SessionLocal(r, "login")},
          !.req[r].db = sessions.opened + 1,
          !.req[r].pc = "login_run"]
    /\ UNCHANGED <<dialect, now, users, pending, categories, transactions, receipt>>

(* auth.py 48-55: the body of the with block returns or raises; leaving it *)
(* closes db either way                                                     *)
login_run(r, fault) ==
    /\ sessions.req[r].pc = "login_run"
    /\ users' = IF fault THEN users ELSE login(SessionBody(sessions.req[r].email)).table
    /\ sessions' = [sessions EXCEPT
          !.open = Closed(sessions.req[r].db),
          !.req[r] = NoRequest]
    /\ UNCHANGED <<dialect, now, pending, categories, transactions, receipt>>

(* transactions.py 17: the dependency get_db runs up to its yield *)
get_db(r) ==
    /\ sessions.req[r].pc = "get_db"
    /\ sessions' = [sessions EXCEPT
          !.opened = @ + 1,
          !.open = @ \cup {SessionLocal(r, "get_db")},
          !.req[r].db = sessions.opened + 1,
          !.req[r].pc = "get_current_user"]
    /\ UNCHANGED <<dialect, now, users, pending, categories, transactions, receipt>>

(* security.py 42-50: no header or a token that does not decode ends the   *)
(* dependency with 401; otherwise it opens a session of its own            *)
get_current_user_decode(r) ==
    /\ sessions.req[r].pc = "get_current_user"
    /\ LET token == sessions.req[r].token IN
       IF ~token.present \/ decode_access_token(token) = None
       THEN sessions' = [sessions EXCEPT !.req[r].pc = "get_db_exit"]
       ELSE sessions' = [sessions EXCEPT
               !.opened = @ + 1,
               !.open = @ \cup {SessionLocal(r, "get_current_user")},
               !.req[r].lookup = sessions.opened + 1,
               !.req[r].pc = "get_current_user_lookup"]
    /\ UNCHANGED <<dialect, now, users, pending, categories, transactions, receipt>>

(* security.py 51-58: db.execute, then db.close(); when execute raises,    *)
(* close is not reached                                                     *)
get_current_user_lookup(r, fault) ==
    /\ sessions.req[r].pc = "get_current_user_lookup"
    /\ IF fault
       THEN sessions' = [sessions EXCEPT !.req[r].pc = "get_db_exit"]
       ELSE sessions' = [sessions EXCEPT
               !.open = Closed(sessions.req[r].lookup),
               !.req[r].lookup = 0,
               !.req[r].pc = IF get_current_user(sessions.req[r].token).status = 200
                             THEN "handler" ELSE "get_db_exit"]
    /\ UNCHANGED <<dialect, now, users, pending, categories, transactions, receipt>>

(* transactions.py 150-198 with the session of get_db *)
handler(r) ==
    /\ sessions.req[r].pc = "handler"
    /\ transactions' = list_transactions(sessions.req[r].token).table
    /\ sessions' = [sessions EXCEPT !.req[r].pc = "get_db_exit"]
    /\ UNCHANGED <<dialect, now, users, pending, categories, receipt>>

(* transactions.py 20-21: finally: db.close(); the request is over *)
get_db_exit(r) ==
    /\ sessions.req[r].pc = "get_db_exit"
    /\ sessions' = [sessions EXCEPT
          !.open = Closed(sessions.req[r].db),
          !.req[r] = NoRequest]
    /\ UNCHANGED <<dialect, now, users, pending, categories, transactions, receipt>>

(* The garbage collector may, at any later time, reclaim a session that no *)
(* running request refers to; it may as well never do so.                   *)
collect ==
    /\ \E s \in sessions.open :
          /\ \A r \in Requests : Running(r) => sessions.req[r].no # s.request
          /\ sessions' = [sessions EXCEPT !.open = @ \ {s}]
    /\ UNCHANGED <<dialect, now, users, pending, categories, transactions, receipt>>

-----------------------------------------------------------------------------

Init ==
    /\ dialect \in {"sqlite", "postgresql"}
    /\ now = 0
    /\ users = {}
    /\ pending = [r \in Requests |-> Idle]
    /\ categories = {}
    /\ transactions = {}
    /\ receipt = NoReceipt
    /\ sessions = NoSessions

(* The resource endpoints at one clock reading, registrations one at a time *)
Next ==
    \/ \E body \in OwnerBodies : call_register(body)
    \/ \E body \in OwnerBodies : call_login(body)
    \/ \E token \in OwnerTokens : call_refresh_token(token)
    \/ \E token \in OwnerInputs : call_get_me(token)
    \/ \E token \in OwnerInputs : call_logout(token)
    \/ \E token \in OwnerInputs : call_list_categories(token)
    \/ \E token \in OwnerInputs, id \in CategoryIds : call_get_category(token, id)
    \/ \E token \in OwnerInputs, body \in CategoryBodies :
          call_create_category(token, body)
    \/ \E token \in OwnerInputs, id \in CategoryIds, body \in CategoryBodies :
          call_update_category(token, id, body)
    \/ \E token \in OwnerInputs, id \in CategoryIds : call_delete_category(token, id)
    \/ \E token \in OwnerInputs : call_list_transactions(token)
    \/ \E token \in OwnerInputs, id \in TransactionIds : call_get_transaction(token, id)
    \/ \E token \in OwnerInputs, body \in TransactionBodies :
          call_create_transaction(token, body)
    \/ \E token \in OwnerInputs, id \in TransactionIds, body \in TransactionBodies :
          call_update_transaction(token, id, body)
    \/ \E token \in OwnerInputs, id \in TransactionIds :
          call_delete_transaction(token, id)
    \/ \E token \in OwnerInputs : call_reports(token)
    \/ \E token \in OwnerInputs, type \in PieTypes :
          call_categories_pie(token, UnsetInt, UnsetInt, type)
    \/ \E token \in OwnerInputs, mime \in MimeInputs, upstream \in UpstreamOutcomes :
          call_parse_receipt_file(token, mime, upstream)

Spec == Init /\ [][Next]_vars

(* The authentication routes alone, with concurrent registrations and a   *)
(* moving clock                                                            *)
InitAuth == Init /\ dialect = "postgresql"

NextAuth ==
    \/ \E r \in Requests, body \in AuthBodies : register_query(r, body)
    \/ \E r \in Requests, body \in AuthBodies : register_reject(r, body)
    \/ \E r \in Requests : register_commit(r)
    \/ \E body \in AuthBodies : call_login(body)
    \/ \E token \in Tokens : call_refresh_token(token)
    \/ \E token \in TokenInputs : call_get_me(token)
    \/ \E token \in TokenInputs : call_logout(token)
    \/ Tick

SpecAuth == InitAuth /\ [][NextAuth]_vars

(* The ledger: transactions of two users over two months, read by the list *)
(* and report routes.  The clock stands at one of two days.                 *)
LedgerClocks == {MinutesAt(2025, 1, 15), MinutesAt(2025, 3, 31)}

(* the bearer tokens login issues now *)
CallerTokens == {create_access_token("1"), create_access_token("2")}

LedgerCategoryBodies ==
    {b \in CategoryBodies : ~IsSet(b, "id") /\ b.name = "food"}

LedgerEntry(type, amount, date, category_id) ==
    [id |-> UnsetInt, user_id |-> UnsetInt, created_at |-> UnsetInt,
     category_id |-> category_id, merchant |-> "shop",
     type |-> type, amount |-> amount, date |-> date]

LedgerBodies ==
    {LedgerEntry("income", 100000, Date(2025, 1, 10), 1),
     LedgerEntry("income", 50000, Date(2025, 1, 1), 1),
     LedgerEntry("expense", 30000, Date(2025, 1, 31), 1),
     LedgerEntry("Expense", 20004, Date(2024, 12, 31), 2),
     LedgerEntry("expense", 10004, Date(2024, 12, 1), 1),
     LedgerEntry("transfer", 70000, Date(2025, 1, 15), 1),
     LedgerEntry("income", 0 - 5000, Date(2025, 1, 15), 1),
     LedgerEntry("income", 10006, Date(2024, 12, 1), 1)}

(* what the second user enters *)
OtherLedgerBodies ==
    {LedgerEntry("income", 100000, Date(2025, 1, 10), 1),
     LedgerEntry("expense", 10004, Date(2024, 12, 1), 1)}

ListQueries ==
    {Query(s, e, t, c, p, n) :
        s \in {UnsetInt, Date(2025, 1, 1)}, e \in {UnsetInt, Date(2025, 1, 10)},
        t \in {None, "income", "expense"}, c \in {UnsetInt, 0, 1},
        p \in {0, 2}, n \in {0, 2, 101}}

InitLedger ==
    /\ dialect \in {"sqlite", "postgresql"}
    /\ now \in LedgerClocks
    /\ users = {}
    /\ pending = [r \in Requests |-> Idle]
    /\ categories = {}
    /\ transactions = {}
    /\ receipt = NoReceipt
    /\ sessions = NoSessions

NextLedger ==
    \/ \E body \in OwnerBodies : call_register(body)
    \/ \E body \in LedgerCategoryBodies :
          call_create_category(create_access_token("1"), body)
    \/ \E body \in LedgerBodies :
          call_create_transaction_ledger(create_access_token("1"), body)
    \/ \E body \in OtherLedgerBodies :
          call_create_transaction_ledger(create_access_token("2"), body)
    \/ \E token \in CallerTokens, q \in {DefaultQuery, Query(UnsetInt, UnsetInt, "income", 1, 2, 1)} :
          call_list_transactions_page(token, q)
    \/ \E token \in CallerTokens, days \in {2, 181} : call_series_daily(token, days)
    \/ \E token \in CallerTokens, months \in {2, 0} : call_series_monthly(token, months)
    \/ \E token \in CallerTokens, month \in {UnsetInt, 13} :
          call_categories_pie(token, UnsetInt, month, "expense")
    \/ \E token \in CallerTokens : call_summary_cards(token)
    \/ \E token \in CallerTokens, lookback_months \in {3, 1} :
          call_forecast_next_month(token, lookback_months)

SpecLedger == InitLedger /\ [][NextLedger]_vars

(* The receipt route with its outbound calls as separate steps *)
NextReceipts ==
    \/ \E body \in OwnerBodies : call_register(body)
    \/ \E token \in OwnerInputs, mime \in MimeInputs : receipt_request(token, mime)
    \/ \E outcome \in StartOutcomes : upload_start(outcome)
    \/ \E outcome \in FinalizeOutcomes : upload_finalize(outcome)
    \/ \E outcome \in ExtractOutcomes : extraction(outcome)
    \/ receipt_respond

SpecReceipts == Init /\ [][NextReceipts]_vars

(* Requests followed through their sessions, two at a time, while         *)
(* statements can fail                                                      *)
NextSessions ==
    \/ \E r \in Requests, route \in SessionRoutes,
          email \in SessionEmails, token \in SessionTokens :
              request_begin(r, route, email, token)
    \/ \E r \in Requests : register_open(r)
    \/ \E r \in Requests, fault \in BOOLEAN : register_run(r, fault)
    \/ \E r \in Requests : login_open(r)
    \/ \E r \in Requests, fault \in BOOLEAN : login_run(r, fault)
    \/ \E r \in Requests : get_db(r)
    \/ \E r \in Requests : get_current_user_decode(r)
    \/ \E r \in Requests, fault \in BOOLEAN : get_current_user_lookup(r, fault)
    \/ \E r \in Requests : handler(r)
    \/ \E r \in Requests : get_db_exit(r)
    \/ collect

SpecSessions == Init /\ [][NextSessions]_vars

-----------------------------------------------------------------------------
(* The callers of the resource endpoints: a token and the user it resolves *)
(* to.                                                                      *)

Caller(token) == get_current_user(token).user
Authenticated(token) == get_current_user(token).status = 200

(* an id no row of the table has *)
FreshId(rows) == NextId(rows)

-----------------------------------------------------------------------------
\* C1: ownership isolation on read.  For a caller A, get_transaction and
\* get_category with the id of a row owned by another user B answer 404 Not
\* Found with no row, the very response an id that no row has gets;
\* list_transactions and list_categories of A hold only rows owned by A.
C1_ReadIsolation ==
    \A token \in OwnerInputs :
        Authenticated(token) =>
            /\ \A t \in transactions :
                 t.user_id # Caller(token) =>
                    /\ get_transaction(token, t.id)
                         = Response(404, "Transaction not found", {}, transactions)
                    /\ get_transaction(token, t.id)
                         = get_transaction(token, FreshId(transactions))
            /\ \A c \in categories :
                 c.user_id # Caller(token) =>
                    /\ get_category(token, c.id)
                         = Response(404, "Category not found", {}, categories)
                    /\ get_category(token, c.id)
                         = get_category(token, FreshId(categories))
            /\ \A t \in list_transactions(token).rows : t.user_id = Caller(token)
            /\ \A c \in list_categories(token).rows : c.user_id = Caller(token)

(* A is logged in while B owns a transaction and a category *)
C1_Witness ==
    \E token \in OwnerInputs :
        /\ Authenticated(token)
        /\ \E t \in transactions :
              /\ t.user_id # Caller(token)
              /\ get_transaction(token, t.id).status = 404
        /\ \E c \in categories :
              /\ c.user_id # Caller(token)
              /\ get_category(token, c.id).status = 404
        /\ list_categories(token).rows # {}

\* C2: update and delete of a transaction or a category whose id no row has,
\* or whose row another user owns, answer 404 Not Found for every payload and
\* leave every stored row as it was.
C2_NotFoundForEveryPayload ==
    \A token \in OwnerInputs :
        Authenticated(token) =>
            /\ \A id \in TransactionIds :
                 (~\E t \in transactions : t.id = id /\ t.user_id = Caller(token)) =>
                    /\ \A body \in TransactionBodies :
                         update_transaction(token, id, body)
                           = Response(404, "Transaction not found", {}, transactions)
                    /\ delete_transaction(token, id)
                         = Response(404, "Transaction not found", {}, transactions)
            /\ \A id \in CategoryIds :
                 (~\E c \in categories : c.id = id /\ c.user_id = Caller(token)) =>
                    /\ \A body \in CategoryBodies :
                         update_category(token, id, body)
                           = Response(404, "Category not found", {}, categories)
                    /\ delete_category(token, id)
                         = Response(404, "Category not found", {}, categories)

\* C3: a created transaction or category is stored with, and returned with,
\* the user_id of the authenticated caller, whatever id, user_id or
\* created_at the body supplied.
C3_CreatedRowOwnedByCaller ==
    \A token \in OwnerInputs :
        Authenticated(token) =>
            /\ \A body \in TransactionBodies :
                 LET out == create_transaction(token, body) IN
                 out.status = 201 =>
                    /\ out.rows \subseteq out.table
                    /\ \A t \in out.rows : t.user_id = Caller(token)
            /\ \A body \in CategoryBodies :
                 LET out == create_category(token, body) IN
                 out.status = 201 =>
                    /\ out.rows \subseteq out.table
                    /\ \A c \in out.rows : c.user_id = Caller(token)

\* C4: create_category by an authenticated caller with a body that has a
\* name succeeds: it stores exactly one new category, owned by the caller,
\* created at the server's time, and returns it.
C4_CreateCategorySucceeds ==
    \A token \in OwnerInputs, body \in CategoryBodies :
        (Authenticated(token) /\ IsSet(body, "name")) =>
            LET out == create_category(token, body) IN
            /\ out.status = 201
            /\ \E c \in out.rows :
                  /\ out.rows = {c}
                  /\ c \notin categories
                  /\ out.table = categories \cup {c}
                  /\ c.user_id = Caller(token)
                  /\ c.created_at = now
                  /\ c.name = body.name

\* C5: update_transaction and update_category never change a row's id,
\* user_id or created_at: after a successful update, whatever the payload
\* set, the three fields are what they were, every other row is untouched,
\* and the owner's lookup by the same id finds exactly the returned row.
C5_UpdateKeepsServerFields ==
    \A token \in OwnerInputs :
        /\ \A id \in TransactionIds, body \in TransactionBodies :
             LET out == update_transaction(token, id, body) IN
             out.status = 200 =>
                \E old \in transactions, new \in out.rows :
                    /\ old.id = id /\ old.user_id = Caller(token)
                    /\ new.id = old.id
                    /\ new.user_id = old.user_id
                    /\ new.created_at = old.created_at
                    /\ out.table \ {new} = transactions \ {old}
                    /\ {t \in out.table : t.id = id /\ t.user_id = Caller(token)} = {new}
        /\ \A id \in CategoryIds, body \in CategoryBodies :
             LET out == update_category(token, id, body) IN
             out.status = 200 =>
                \E old \in categories, new \in out.rows :
                    /\ old.id = id /\ old.user_id = Caller(token)
                    /\ new.id = old.id
                    /\ new.user_id = old.user_id
                    /\ new.created_at = old.created_at
                    /\ out.table \ {new} = categories \ {old}
                    /\ {c \in out.table : c.id = id /\ c.user_id = Caller(token)} = {new}

(* an owner updates a transaction and a category with payloads that set  *)
(* another id, another owner and another creation time                    *)
C5_Witness ==
    \E token \in OwnerInputs :
        /\ \E t \in transactions, body \in TransactionBodies :
              /\ IsSet(body, "id") /\ body.id # t.id
              /\ IsSet(body, "user_id") /\ body.user_id # t.user_id
              /\ IsSet(body, "created_at") /\ body.created_at # t.created_at
              /\ update_transaction(token, t.id, body).status = 200
        /\ \E c \in categories, body \in CategoryBodies :
              /\ IsSet(body, "id") /\ body.id # c.id
              /\ IsSet(body, "user_id") /\ body.user_id # c.user_id
              /\ IsSet(body, "created_at") /\ body.created_at # c.created_at
              /\ body.name # c.name
              /\ update_category(token, c.id, body).status = 200

\* C6: create_transaction answers 400 Bad Request when category_id is
\* absent, when merchant is absent or empty, and when category_id names no
\* stored category; it then adds no row and leaves the table as it was.
C6_CreateTransactionBadRequest ==
    \A token \in OwnerInputs, body \in TransactionBodies :
        (/\ Authenticated(token)
         /\ \/ ~IsSet(body, "category_id")
            \/ ~IsSet(body, "merchant")
            \/ body.merchant = ""
            \/ ~\E c \in categories : c.id = body.category_id) =>
            LET out == create_transaction(token, body) IN
            /\ out.status = 400
            /\ out.rows = {}
            /\ out.table = transactions

(* with a category stored: a body without category_id, one with an empty  *)
(* merchant beside a stored category's id, and a complete one that names a *)
(* category that is not stored                                             *)
C6_Witness ==
    \E token \in OwnerInputs :
        /\ Authenticated(token)
        /\ categories # {}
        /\ \E body \in TransactionBodies :
              /\ ~IsSet(body, "category_id") /\ body.merchant \in Merchants
              /\ create_transaction(token, body).status = 400
        /\ \E body \in TransactionBodies :
              /\ body.merchant = ""
              /\ \E c \in categories : c.id = body.category_id
              /\ create_transaction(token, body).status = 400
        /\ \E body \in TransactionBodies :
              /\ body.merchant \in Merchants
              /\ IsSet(body, "category_id")
              /\ ~\E c \in categories : c.id = body.category_id
              /\ create_transaction(token, body).detail = "Invalid category ID."

\* C7: register with an email that a stored user has fails with Conflict
\* (409), adds no user row, leaves the stored user's password hash and name
\* as they were and returns no token; register with an email no stored user
\* has adds exactly one user and returns a bearer token whose claim is that
\* email.
C7_RegisterConflict ==
    \A body \in AuthBodies :
        LET out == register(body) IN
        IF UserByEmail(body.email) # {}
        THEN /\ out.status = 409
             /\ out.table = users
             /\ out.token = NoToken
        ELSE /\ out.status = 200
             /\ \E u \in out.table :
                   /\ u \notin users
                   /\ out.table = users \cup {u}
                   /\ u.email = body.email
             /\ out.token.present /\ out.token.sub = body.email

\* C8: under any interleaving of concurrent register requests at most one
\* user row exists per email: a request that passed its check for an
\* existing email before another request stored that email has its insert
\* refused, and the user table stays as it is.
C8_EmailUniqueUnderConcurrency ==
    /\ \A u1, u2 \in users : u1.email = u2.email => u1 = u2
    /\ \A r \in Requests :
          (pending[r].active /\ UserByEmail(pending[r].email) # {}) =>
              register_insert(pending[r]) = Response(500, "IntegrityError", {}, users)

(* two requests passed the check with one email, with different passwords; *)
(* one of them has stored its user, the other has its insert still to run   *)
C8_Witness ==
    \E r \in Requests, u \in users :
        /\ pending[r].active
        /\ pending[r].email = u.email
        /\ hash_password(pending[r].password) # u.password_hash

(* Every handler behind the get_current_user dependency answers what the   *)
(* dependency answered and writes nothing.                                  *)
ProtectedDidNotRun(token) ==
    LET auth == get_current_user(token) IN
    /\ get_me(token) = Unauthorized(auth, users)
    /\ list_categories(token) = Unauthorized(auth, categories)
    /\ list_transactions(token) = Unauthorized(auth, transactions)
    /\ reports(token) = Unauthorized(auth, transactions)
    /\ \A id \in CategoryIds :
          /\ get_category(token, id) = Unauthorized(auth, categories)
          /\ delete_category(token, id) = Unauthorized(auth, categories)
          /\ \A body \in CategoryBodies :
                update_category(token, id, body) = Unauthorized(auth, categories)
    /\ \A body \in CategoryBodies :
          create_category(token, body) = Unauthorized(auth, categories)
    /\ \A id \in TransactionIds :
          /\ get_transaction(token, id) = Unauthorized(auth, transactions)
          /\ delete_transaction(token, id) = Unauthorized(auth, transactions)
          /\ \A body \in TransactionBodies :
                update_transaction(token, id, body) = Unauthorized(auth, transactions)
    /\ \A body \in TransactionBodies :
          create_transaction(token, body) = Unauthorized(auth, transactions)
    /\ \A mime \in MimeInputs, upstream \in UpstreamOutcomes :
          parse_receipt_file(token, mime, upstream) = Unauthorized(auth, transactions)

\* C9: get_current_user yields a user identity only for a token whose
\* signature verifies, that has not expired and whose email claim is the
\* email of a stored user, and the identity is that user's id; for every
\* other token it answers 401 Unauthorized, yields no identity, and the
\* protected handler does not run.
C9_GetCurrentUser ==
    \A token \in TokenInputs :
        LET auth == get_current_user(token) IN
        IF /\ token.present /\ token.signed /\ token.exp >= now
           /\ token.sub # None
           /\ \E u \in users : u.email = token.sub
        THEN /\ auth.status = 200
             /\ \E u \in users : u.email = token.sub /\ auth.user = u.id
        ELSE /\ auth.status = 401
             /\ auth.user = NoUser
             /\ ProtectedDidNotRun(token)

(* after the clock moved: a stored user's token is accepted, an older token *)
(* of the same user has expired, a forged one and one of an unknown user are *)
(* turned away                                                               *)
C9_Witness ==
    /\ now > 0
    /\ \E good, old, forged, unknown \in Tokens :
          /\ get_current_user(good).status = 200
          /\ old.signed /\ old.sub = good.sub /\ old.exp < now
          /\ get_current_user(old).detail = "Invalid or expired token"
          /\ ~forged.signed /\ forged.sub = good.sub /\ forged.exp >= now
          /\ get_current_user(forged).status = 401
          /\ unknown.signed /\ unknown.exp >= now
          /\ get_current_user(unknown).detail = "User not found"

\* C10: a request without an Authorization bearer token to any route other
\* than register, login and health (the category, transaction, report and
\* receipt routes, /me, /refresh and /logout) is rejected with 401
\* Unauthorized and changes nothing, whatever its body holds.
C10_BearerTokenRequired ==
    /\ get_current_user(NoToken).status = 401
    /\ ProtectedDidNotRun(NoToken)
    /\ logout(NoToken).status = 401
    /\ logout(NoToken).table = users
    /\ \A refresh \in OwnerTokens :
          /\ refresh_token(refresh).status = 401
          /\ refresh_token(refresh).table = users

\* C19: parse_receipt_file accepts only PDF, JPEG, PNG, WEBP and TIFF: an
\* authenticated request with any other content type, or with none, ends
\* with 400 Bad Request before any outbound call is made; and no step of a
\* parse-file request, accepted or rejected, changes a row of any table.
C19_ReceiptMimeAndNoPersistence ==
    /\ [](LET accepted == {"application/pdf", "image/jpeg", "image/png",
                           "image/webp", "image/tiff"} IN
          /\ (receipt.pc # "idle" /\ receipt.status # 401
                /\ receipt.mime \notin accepted) =>
                  /\ receipt.pc = "done"
                  /\ receipt.status = 400
                  /\ receipt.calls = <<>>
          /\ \A token \in OwnerInputs, mime \in MimeInputs, up \in UpstreamOutcomes :
                /\ parse_receipt_file(token, mime, up).table = transactions
                /\ (Authenticated(token) /\ mime \notin accepted) =>
                      parse_receipt_file(token, mime, up).status = 400)
    /\ [][receipt' # receipt =>
            UNCHANGED <<users, categories, transactions>>]_vars

(* a logged-in caller sent a text/plain file and got 400 *)
C19_Witness ==
    /\ receipt.pc = "done"
    /\ receipt.mime = "text/plain"
    /\ receipt.status = 400
    /\ \E token \in OwnerInputs : Authenticated(token)

\* C20: the outbound calls of parse_receipt_file are made in the order
\* upload-start, upload-finalize, extraction, each at most once and each only
\* after the one before it succeeded; a call that does not succeed (no upload
\* URL, finalize not ok or without file URI, extraction not ok or of an
\* unexpected shape) is the last call, the request ends with 500 Internal
\* Error and no parsed result; a parsed result comes only after all three
\* succeeded.
C20_OutboundCallOrder ==
    LET order == <<"upload-start", "upload-finalize", "extraction">>
        n == Len(receipt.calls) IN
    /\ n <= 3
    /\ receipt.calls = SubSeq(order, 1, n)
    /\ Len(receipt.answers) = n
    /\ \A i \in 1..n :
          IF receipt.answers[i] = "ok"
          THEN i = n => (IF n = 3
                         THEN /\ receipt.pc = "done" /\ receipt.status = 200
                              /\ receipt.parsed
                         ELSE receipt.pc = (IF n = 1 THEN "upload_finalize"
                                                     ELSE "extraction"))
          ELSE /\ i = n
               /\ receipt.pc = "done"
               /\ receipt.status = 500
               /\ ~receipt.parsed
    /\ receipt.parsed => (n = 3 /\ \A i \in 1..3 : receipt.answers[i] = "ok")
    /\ (receipt.pc = "done" /\ n < 3 /\ n > 0) => receipt.status = 500

(* the upload went through and the extraction answered in an unexpected shape *)
C20_Witness ==
    /\ Len(receipt.calls) = 3
    /\ receipt.answers = <<"ok", "ok", "bad_shape">>
    /\ receipt.status = 500

\* C11 (as stated): for every list_transactions query, with every parameter
\* the request carries taken as a filter, total_count is the number of the
\* caller's rows that match the filters, total_pages is
\* ceil(total_count / per_page) with page clamped to >= 1 and per_page to
\* 1..100, and data is a subset of the matching rows with at most per_page
\* elements.
C11_ListCountsEveryGivenFilter ==
    \A token \in CallerTokens, q \in ListQueries :
        LET out == list_transactions_page(token, q)
            per_page == IF q.per_page > 100 THEN 100
                        ELSE IF q.per_page < 1 THEN 1 ELSE q.per_page
            matching ==
                {t \in transactions :
                    /\ t.user_id = Caller(token)
                    /\ q.start_date # UnsetInt => t.date >= q.start_date
                    /\ q.end_date # UnsetInt => t.date <= q.end_date
                    /\ q.type # None => t.type = q.type
                    /\ q.category_id # UnsetInt => t.category_id = q.category_id} IN
        out.status = 200 =>
            /\ out.pagination.total_count = Cardinality(matching)
            /\ out.pagination.per_page = per_page
            /\ out.pagination.current_page >= 1
            /\ out.pagination.total_pages * per_page >= Cardinality(matching)
            /\ (out.pagination.total_pages - 1) * per_page < Cardinality(matching)
                  \/ (Cardinality(matching) = 0 /\ out.pagination.total_pages = 0)
            /\ Len(out.data) <= per_page
            /\ \A i \in DOMAIN out.data : out.data[i] \in matching

\* C11 (amended): the same, where a category_id of 0, like an empty type,
\* is no filter; moreover the pages of a query, put one after the other,
\* hold every matching row exactly once, latest date first.
C11_ListCounts ==
    \A token \in CallerTokens, q \in ListQueries :
        LET out == list_transactions_page(token, q)
            per_page == IF q.per_page > 100 THEN 100
                        ELSE IF q.per_page < 1 THEN 1 ELSE q.per_page
            page == IF q.page < 1 THEN 1 ELSE q.page
            matching ==
                {t \in transactions :
                    /\ t.user_id = Caller(token)
                    /\ q.start_date # UnsetInt => t.date >= q.start_date
                    /\ q.end_date # UnsetInt => t.date <= q.end_date
                    /\ q.type # None => t.type = q.type
                    /\ q.category_id \notin {UnsetInt, 0} =>
                          t.category_id = q.category_id}
            n == Cardinality(matching) IN
        out.status = 200 =>
            /\ out.pagination.total_count = n
            /\ out.pagination.per_page = per_page
            /\ out.pagination.current_page = page
            /\ out.pagination.total_pages * per_page >= n
            /\ (out.pagination.total_pages - 1) * per_page < n
                  \/ (n = 0 /\ out.pagination.total_pages = 0)
            /\ Len(out.data) <= per_page
            /\ \A i \in DOMAIN out.data : out.data[i] \in matching
            /\ \A i, j \in DOMAIN out.data : i < j => out.data[i].date >= out.data[j].date
            /\ Len(out.data) =
                  (IF page * per_page <= n THEN per_page
                   ELSE IF (page - 1) * per_page < n THEN n - (page - 1) * per_page
                   ELSE 0)
            /\ \A t \in IF q.page = 2 THEN matching ELSE {} :
                  \E p \in 1..out.pagination.total_pages :
                      LET pg == list_transactions_page(token, [q EXCEPT !.page = p]).data IN
                      \E i \in DOMAIN pg : pg[i] = t

(* beside another user's row the caller has two incomes and asks for them *)
(* with page = 0 and per_page = 0: page 1 of 2, one row                     *)
C11_Witness ==
    \E token \in CallerTokens :
        /\ Cardinality({t \in transactions : t.user_id = Caller(token)}) >= 2
        /\ \E t \in transactions : t.user_id # Caller(token)
        /\ \E q \in ListQueries :
              LET out == list_transactions_page(token, q) IN
              /\ out.status = 200
              /\ q.type = "income" /\ q.per_page = 0 /\ q.page = 0
              /\ out.pagination.total_count = 2
              /\ out.pagination.total_pages = 2
              /\ Len(out.data) = 1

-----------------------------------------------------------------------------
(* the values of days, months and lookback_months the report claims are tried with *)
DaysInputs == {1, 30, 180}
MonthsInputs == {1, 13, 36}

\* C12: series_daily with any days in 1..180 answers with exactly `days`
\* entries, the i-th dated today - (days - 1) + (i - 1), so one for each
\* consecutive calendar day up to today in ascending order; a day on which
\* the caller has no transaction has income 0 and expense 0, and every entry
\* has net = income - expense.
C12_DailySeriesComplete ==
    \A token \in CallerTokens, days \in DaysInputs :
        Authenticated(token) =>
            LET r == series_daily(token, days) IN
            /\ r.status = 200
            /\ Len(r.series) = days
            /\ \A i \in 1..days :
                  LET e == r.series[i] IN
                  /\ e.date = _today - (days - 1) + (i - 1)
                  /\ OwnBetween(Caller(token), e.date, e.date) = {}
                        => e.income = 0 /\ e.expense = 0
                  /\ e.net = e.income - e.expense

\* C13: in every entry of the daily and of the monthly series income >= 0
\* and expense >= 0, whatever transactions the caller has stored, and a
\* transaction whose type is neither 'income' nor 'expense' (case ignored)
\* adds nothing to either: each figure is the rounded sum of the amounts of
\* the entry's rows of that type.
C13_SeriesNonNegative ==
    \A token \in CallerTokens :
        /\ \A days \in DaysInputs :
              LET r == series_daily(token, days) IN
              r.status = 200 =>
                  \A i \in DOMAIN r.series :
                      LET e == r.series[i]
                          rows == OwnBetween(Caller(token), e.date, e.date) IN
                      /\ e.income >= 0
                      /\ e.expense >= 0
                      /\ e.income = Round2(SumAmount({t \in rows : t.type \in {"income", "Income"}}))
                      /\ e.expense = Round2(SumAmount({t \in rows : t.type \in {"expense", "Expense"}}))
        /\ \A months \in MonthsInputs :
              LET r == series_monthly(token, months) IN
              r.status = 200 =>
                  \A i \in DOMAIN r.series :
                      r.series[i].income >= 0 /\ r.series[i].expense >= 0

(* the calendar month after the one a key names *)
NextMonthKey(key) == IF key[2] = 12 THEN <<key[1] + 1, 1>> ELSE <<key[1], key[2] + 1>>

\* C14: for every N in 1..36, series_monthly(months = N) answers with exactly
\* N entries; their month keys are consecutive calendar months in
\* chronological order, the last one the current month, so that December of
\* the previous year precedes January; every key has a month in 1..12, and
\* a month in which the caller has no transaction has income 0 and expense 0.
C14_MonthlySeriesKeys ==
    \A token \in CallerTokens, N \in MonthsInputs :
        Authenticated(token) =>
            LET r == series_monthly(token, N) IN
            /\ r.status = 200
            /\ Len(r.series) = N
            /\ r.series[N].month = MonthKey(_today)
            /\ \A i \in 1..(N - 1) : r.series[i + 1].month = NextMonthKey(r.series[i].month)
            /\ \A i \in 1..N :
                  LET e == r.series[i] IN
                  /\ e.month[2] \in 1..12
                  /\ (\A t \in transactions :
                          t.user_id = Caller(token) => MonthKey(t.date) # e.month)
                        => e.income = 0 /\ e.expense = 0

(* the caller's rows of a type, case ignored, dated in the month of day d *)
OwnInMonth(current_user, type, d) ==
    {t \in transactions :
        /\ t.user_id = current_user
        /\ Lower(t.type) = type
        /\ MonthKey(t.date) = MonthKey(d)}

(* the first day of the calendar month before the one of day d *)
PreviousMonth(d) ==
    IF MonthOf(d) = 1 THEN Date(YearOf(d) - 1, 12, 1) ELSE Date(YearOf(d), MonthOf(d) - 1, 1)

\* C15: summary_cards reports for this_month the sum of the caller's income
\* and of the caller's expense transactions dated in the current calendar
\* month and net = income - expense; for last_month the same over the
\* previous calendar month (December of the previous year in January); and
\* delta = this_month - last_month for income, expense and net.  Incomes of
\* 100 and 50 and an expense of 30 in the current month give 150, 30, 120.
C15_SummaryCards ==
    \A token \in CallerTokens :
        Authenticated(token) =>
            LET r == summary_cards(token)
                u == Caller(token) IN
            /\ r.status = 200
            /\ r.this_month.income = Round2(SumAmount(OwnInMonth(u, "income", _today)))
            /\ r.this_month.expense = Round2(SumAmount(OwnInMonth(u, "expense", _today)))
            /\ r.this_month.net = r.this_month.income - r.this_month.expense
            /\ r.last_month.month = MonthKey(PreviousMonth(_today))
            /\ r.last_month.income
                  = Round2(SumAmount(OwnInMonth(u, "income", PreviousMonth(_today))))
            /\ r.last_month.expense
                  = Round2(SumAmount(OwnInMonth(u, "expense", PreviousMonth(_today))))
            /\ r.last_month.net = r.last_month.income - r.last_month.expense
            /\ r.delta.income = r.this_month.income - r.last_month.income
            /\ r.delta.expense = r.this_month.expense - r.last_month.expense
            /\ r.delta.net = r.this_month.net - r.last_month.net
            /\ {t.amount : t \in OwnInMonth(u, "income", _today)} = {100000, 50000}
                  /\ {t.amount : t \in OwnInMonth(u, "expense", _today)} = {30000}
                  /\ Cardinality(OwnInMonth(u, "income", _today) \cup OwnInMonth(u, "expense", _today)) = 3
                  => /\ r.this_month.income = 150000
                     /\ r.this_month.expense = 30000
                     /\ r.this_month.net = 120000

(* year and month as the request gives them: absent, 0, a month of the *)
(* ledger, a month no calendar has                                      *)
PieYears == {UnsetInt, 2024}
PieMonths == {UnsetInt, 0, 12, 13}

\* C16: for every year, month and type (income or expense) categories_pie
\* answers, and its total equals the sum of the value fields of its slices;
\* it answers for every month of the calendar, and for an absent or zero
\* year or month, which stand for the current one.
C16_PieTotalIsSumOfSlices ==
    \A token \in CallerTokens, year \in PieYears, month \in PieMonths, type \in PieTypes :
        Authenticated(token) =>
            LET r == categories_pie(token, year, month, type) IN
            /\ month \in {UnsetInt} \cup (0..12) => r.status = 200
            /\ r.status = 200 => r.total = SumValue(r.slices)

\* The caller's expenses of December 2024 fall into two categories whose
\* sums, 20.004 and 10.004, are rounded to the slice values 20.00 and 10.00;
\* the total is 30.00.
C16_Witness ==
    \E token \in CallerTokens :
        /\ Authenticated(token)
        /\ LET r == categories_pie(token, 2024, 12, "expense") IN
           /\ r.status = 200
           /\ {x.value : x \in r.slices} = {20000, 10000}
           /\ r.total = 30000

(* the values of lookback_months the forecast claims are tried with *)
LookbackInputs == {2, 3, 12}

(* the caller's rows dated in the lookback window, whatever their type *)
LookbackRows(current_user, lookback_months) ==
    LET keys == base_months(lookback_months) IN
    {t \in transactions :
        /\ t.user_id = current_user
        /\ \E i \in DOMAIN keys : MonthKey(t.date) = keys[i]}

\* C17: forecast_next_month for a caller with no transaction in the lookback
\* window completes, with no division error, and answers forecast.expense =
\* 0.0, forecast.income = 0.0 and an empty by_category list.
C17_ForecastEmptyWindow ==
    \A token \in CallerTokens, lookback_months \in LookbackInputs :
        Authenticated(token) /\ LookbackRows(Caller(token), lookback_months) = {} =>
            LET r == forecast_next_month(token, lookback_months) IN
            /\ r.status = 200
            /\ r.forecast.expense = 0
            /\ r.forecast.income = 0
            /\ r.forecast.by_category = {}

(* round(part / whole, 4), in ten-thousandths *)
Share4(part, whole) ==
    IF whole = 0 THEN 0 ELSE (2 * 10000 * part + whole) \div (2 * whole)

\* C18: forecast_next_month for a caller who has expense transactions in the
\* lookback window answers 200; forecast.income and forecast.expense are the
\* arithmetic means of the monthly income and expense sums over the
\* lookback_months months before the current month, so that transactions of
\* the current month have no effect; by_category has one entry per expense
\* category of the window, its share that category's fraction of the
\* window's expenses and its projected_amount forecast.expense times that
\* fraction.
C18_ForecastWithExpenses ==
    \A token \in CallerTokens, lookback_months \in LookbackInputs :
        Authenticated(token) /\ LookbackExpenses(Caller(token), lookback_months) # {} =>
            LET r == forecast_next_month(token, lookback_months)
                window == LookbackRows(Caller(token), lookback_months)
                expenses == LookbackExpenses(Caller(token), lookback_months)
                whole == SumAmount(expenses) IN
            /\ r.status = 200
            /\ r.forecast.income
                  = RoundMean2(SumAmount({t \in window : Lower(t.type) = "income"}),
                               lookback_months)
            /\ r.forecast.expense = RoundMean2(whole, lookback_months)
            /\ {e.category_id : e \in r.forecast.by_category}
                  = {t.category_id : t \in expenses}
            /\ \A e \in r.forecast.by_category :
                  LET part == SumAmount({t \in expenses : t.category_id = e.category_id}) IN
                  /\ e.share = Share4(part, whole)
                  /\ e.projected_amount
                        = Round2((r.forecast.expense * part) \div (IF whole = 0 THEN 1 ELSE whole))
                  /\ \A f \in r.forecast.by_category :
                        f.category_id = e.category_id => f = e

\* C24: referential integrity of categories.  In every state the create,
\* update and delete operations on categories and transactions can reach,
\* the category_id of each stored transaction is the id of a category that
\* exists; neither delete_category nor update_transaction leaves a
\* transaction that points at a missing category.
C24_TransactionCategoryExists ==
    \A t \in transactions : \E c \in categories : c.id = t.category_id

\* C25: a transaction's category belongs to the transaction's owner.  In
\* every reachable state the category_id of each stored transaction is the id
\* of a category whose user_id is the transaction's user_id.
C25_TransactionCategoryOwnedByOwner ==
    \A t \in transactions :
        \E c \in categories : c.id = t.category_id /\ c.user_id = t.user_id

(* a filter (none, or the type income) with a page size of 1 or 2 *)
PageQueries ==
    {Query(UnsetInt, UnsetInt, t, UnsetInt, 1, n) : t \in {None, "income"}, n \in {1, 2}}

(* the data of page p of query q *)
PageData(token, q, p) == list_transactions_page(token, [q EXCEPT !.page = p]).data

(* the data of the pages 1..p of query q, one after the other *)
RECURSIVE PagesUpTo(_, _, _)
PagesUpTo(token, q, p) ==
    IF p < 1 THEN <<>> ELSE PagesUpTo(token, q, p - 1) \o PageData(token, q, p)

\* C23: for a fixed filter and per_page and an unchanged store, the pages
\* 1..total_pages of list_transactions, put one after the other, hold every
\* matching transaction of the caller exactly once, ordered by date
\* descending and then id descending; every page past total_pages is empty,
\* and a page below 1 returns the data of page 1.
C23_PagesPartitionTheMatches ==
    \A token \in CallerTokens, q \in PageQueries :
        Authenticated(token) =>
            LET total_pages == list_transactions_page(token, q).pagination.total_pages
                all == PagesUpTo(token, q, total_pages)
                matching == {t \in transactions :
                                /\ t.user_id = Caller(token)
                                /\ q.type # None => t.type = q.type} IN
            /\ Len(all) = Cardinality(matching)
            /\ {all[i] : i \in DOMAIN all} = matching
            /\ \A i, j \in DOMAIN all :
                  i < j => \/ all[i].date > all[j].date
                           \/ (all[i].date = all[j].date /\ all[i].id > all[j].id)
            /\ \A p \in {total_pages + 1, total_pages + 2} : PageData(token, q, p) = <<>>
            /\ \A p \in {0, 0 - 1} : PageData(token, q, p) = PageData(token, q, 1)

\* The caller has three rows, two of them of one date, and reads them in
\* pages of two: page 1 is full, page 2 holds the last row.
C23_Witness ==
    \E token \in CallerTokens, q \in PageQueries :
        /\ Authenticated(token)
        /\ q.type = None /\ q.per_page = 2
        /\ Len(PageData(token, q, 1)) = 2
        /\ Len(PageData(token, q, 2)) = 1
        /\ \E t, u \in transactions :
              t.user_id = Caller(token) /\ u.user_id = Caller(token)
                  /\ t.id # u.id /\ t.date = u.date

\* C22: categories_pie accounts for every matching transaction.  Each
\* transaction of the caller with the requested type dated in the requested
\* month adds its amount to exactly one slice, also when its category is no
\* row of the category table any more (the slice then carries a fallback
\* label), so that total is the sum of the amounts of all these transactions.
C22_PieCoversEveryTransaction ==
    \A token \in OwnerTokens, type \in PieTypes :
        Authenticated(token) =>
            LET r == categories_pie(token, UnsetInt, UnsetInt, type)
                matching == OwnInMonth(Caller(token), type, _today) IN
            /\ r.status = 200
            /\ \A t \in matching :
                  Cardinality({x \in r.slices : x.category_id = t.category_id}) = 1
            /\ r.total = Round2(SumAmount(matching))

\* C21: every database session opened while a request is handled (by
\* get_db, by register and login, by the lookup of get_current_user) is
\* released by the time the request finishes, normally or with a failure:
\* each open session belongs to a request that is still running, and a
\* running request works only with sessions it opened itself.
C21_SessionsReleased ==
    /\ \A s \in sessions.open :
          \E r \in Requests : Running(r) /\ sessions.req[r].no = s.request
    /\ \A r \in Requests, s \in sessions.open :
          Running(r) /\ s.id \in {sessions.req[r].db, sessions.req[r].lookup}
              => s.request = sessions.req[r].no
====
